---- MODULE Spec2Model ----
(***************************************************************************)
(* A model of quizy's core (src/quizy/core.py): the question variants'     *)
(* check_answer, the QuizResult aggregation, and the Quiz execution        *)
(* engine in its synchronous (execute) and asyncio (execute_async) forms.  *)
(*                                                                         *)
(* Python values are tagged records [kind, v] so that values of different  *)
(* Python types can be told apart and compared the way Python's == does.   *)
(* Floats are modelled as exact fractions [num, den] in lowest terms.      *)
(* time.time() is the integer variable now; it only advances while an      *)
(* answer is being acquired (callbacks and bookkeeping take no time).      *)
(***************************************************************************)
EXTENDS Integers, Sequences, FiniteSets, TLC

VARIABLES
    questions,        \* Quiz.questions: sequence of indices into QuestionPool
    time_limit,       \* Quiz.time_limit (NoLimit for None)
    allow_skip,       \* Quiz.allow_skip
    randomize_order,  \* Quiz.randomize_order
    last_result,      \* Quiz._result (NoResult for None)
    start_time,       \* Quiz._start_time (NoTime for None)
    now,              \* the reading time.time() would give
    run,              \* per invocation of execute/execute_async: its locals
    cq,               \* the question a check_answer call is made on
    submitted,        \* the answer submitted to it
    outcome,          \* what check_answer returned
    qr,               \* a QuizResult whose derived properties are read
    ctor,             \* a call of a question constructor: its arguments and its end
    display,          \* a question object and what its display property returned
    gen,              \* a call of AIQuestionGenerator.generate_question_async
    timer,            \* a TimerDisplay
    edit              \* the last call that edited Quiz.questions

vars == <<questions, time_limit, allow_skip, randomize_order, last_result,
          start_time, now, run, cq, submitted, outcome, qr,
          ctor, display, gen, timer, edit>>

engineVars == <<questions, time_limit, allow_skip, randomize_order,
                last_result, start_time, now, run>>
checkVars == <<cq, submitted, outcome>>
otherVars == <<ctor, display, gen, timer, edit>>

-----------------------------------------------------------------------------
(* Bounds of the model *)

MaxQuestions == 2
MaxClock == 2
MaxTimeLimit == 1
NumRuns == 2
MaxCorrect == 3
MaxSubmit == 3
MaxPairs == 3
MaxResults == 10
MaxText == 3
MaxCalls == 3
MaxPad == 1
MaxOptions == 2
MaxAccess == 3
MaxTicks == 5
MaxEdits == 2
MaxAdd == 3
MaxDuration == 2
MaxVariations == 2

-----------------------------------------------------------------------------
(* Python values *)

None == [kind |-> "none", v |-> ""]
Str(s) == [kind |-> "str", v |-> s]
List(xs) == [kind |-> "list", v |-> xs]
Dict(f) == [kind |-> "dict", v |-> f]
Bool(b) == [kind |-> "bool", v |-> b]
\* a str whose characters the program looks at, as the sequence of its characters
Text(cs) == [kind |-> "text", v |-> cs]
PyInt(n) == [kind |-> "int", v |-> n]
\* a float, as a fraction
PyFloat(x) == [kind |-> "float", v |-> x]

\* a == b on Python values
PyEq(a, b) == a.kind = b.kind /\ a.v = b.v

\* bool(a): the truth value of a Python value
Truthy(a) ==
    CASE a.kind = "none" -> FALSE
      [] a.kind = "str" -> a.v # ""
      [] a.kind = "text" -> a.v # <<>>
      [] a.kind = "list" -> a.v # <<>>
      [] a.kind = "dict" -> DOMAIN a.v # {}
      [] a.kind = "bool" -> a.v
      [] a.kind = "int" -> a.v # 0
      [] a.kind = "float" -> a.v.num # 0

\* a or ""
OrEmpty(a) == IF Truthy(a) THEN a ELSE Str("")

Range(s) == {s[k] : k \in DOMAIN s}

RECURSIVE GCD(_, _)
GCD(a, b) == IF b = 0 THEN a ELSE GCD(b, a % b)

\* the float n / d, kept in lowest terms (d > 0, n >= 0)
Frac(n, d) == LET g == GCD(n, d) IN [num |-> n \div g, den |-> d \div g]
FracEq(x, y) == x.num * y.den = y.num * x.den
FracLt(x, y) == x.num * y.den < y.num * x.den
FracLeq(x, y) == x.num * y.den <= y.num * x.den
FracAdd(x, y) == Frac(x.num * y.den + y.num * x.den, x.den * y.den)
FracDivInt(x, n) == Frac(x.num, x.den * n)
FracMulInt(x, n) == Frac(x.num * n, x.den)
Zero == Frac(0, 1)
One == Frac(1, 1)

\* what check_answer returns: a bool, or a float
RetBool(b) == [isbool |-> TRUE, b |-> b, f |-> Zero]
RetFloat(x) == [isbool |-> FALSE, b |-> FALSE, f |-> x]
\* check_answer does not return: an exception leaves it
Raised == [isbool |-> FALSE, b |-> FALSE, f |-> Zero, raised |-> TRUE]
Raises(r) == "raised" \in DOMAIN r

\* str.lower, str.upper and str.strip over the characters a, A and the blank
Whitespace == {" "}
Cased == <<"a", "e", "f", "l", "n", "o", "r", "s", "t", "u", "y">>
Capitals == <<"A", "E", "F", "L", "N", "O", "R", "S", "T", "U", "Y">>
LowerChar(c) ==
    IF \E k \in DOMAIN Capitals : Capitals[k] = c
    THEN Cased[CHOOSE k \in DOMAIN Capitals : Capitals[k] = c] ELSE c
UpperChar(c) ==
    IF \E k \in DOMAIN Cased : Cased[k] = c
    THEN Capitals[CHOOSE k \in DOMAIN Cased : Cased[k] = c] ELSE c
Lower(s) == [k \in DOMAIN s |-> LowerChar(s[k])]
Upper(s) == [k \in DOMAIN s |-> UpperChar(s[k])]

RECURSIVE LStrip(_)
LStrip(s) == IF s # <<>> /\ s[1] \in Whitespace THEN LStrip(Tail(s)) ELSE s

RECURSIVE RStrip(_)
RStrip(s) ==
    IF s # <<>> /\ s[Len(s)] \in Whitespace THEN RStrip(SubSeq(s, 1, Len(s) - 1)) ELSE s

Strip(s) == RStrip(LStrip(s))

-----------------------------------------------------------------------------
(* Question variants *)

MultipleChoiceQuestion(options, correct_answer, tl) ==
    [question_type |-> "multiple_choice", options |-> options,
     correct_answer |-> Str(correct_answer), allow_partial_credit |-> FALSE,
     time_limit |-> tl]

MultipleSelectQuestion(options, correct_answers, partial, tl) ==
    [question_type |-> "multiple_select", options |-> options,
     correct_answer |-> List(correct_answers), allow_partial_credit |-> partial,
     time_limit |-> tl]

MatchingQuestion(pairs, partial, tl) ==
    [question_type |-> "matching", options |-> <<>>,
     correct_answer |-> Dict(pairs), allow_partial_credit |-> partial,
     time_limit |-> tl]

ShortTextQuestion(correct_answer, case_sensitive, accepted_variations, tl) ==
    [question_type |-> "short_text", options |-> <<>>,
     correct_answer |-> Text(correct_answer), allow_partial_credit |-> FALSE,
     time_limit |-> tl, case_sensitive |-> case_sensitive,
     accepted_variations |-> accepted_variations]

TrueFalseQuestion(correct_answer, tl) ==
    [question_type |-> "true_false", options |-> <<>>,
     correct_answer |-> Bool(correct_answer), allow_partial_credit |-> FALSE,
     time_limit |-> tl]

\* TrueFalseQuestion.__init__ raises ValueError
TrueFalse_rejects(correct_answer) == correct_answer.kind # "bool"

\* MultipleChoiceQuestion.__init__ raises ValueError
MultipleChoice_rejects(options, correct_answer) ==
    correct_answer \notin Range(options)

\* a constructor that looks at the number of correct answers alone
MultipleSelect_rejects_by_length(options, correct_answers) ==
    Len(correct_answers) < 2

\* MultipleSelectQuestion.__init__ raises ValueError
MultipleSelect_rejects(options, correct_answers) ==
    \/ \E k \in DOMAIN correct_answers : correct_answers[k] \notin Range(options)
    \/ Len(correct_answers) < 2

\* MatchingQuestion.__init__ raises ValueError
Matching_rejects(pairs) == DOMAIN pairs = {} \/ Cardinality(DOMAIN pairs) < 2

MultipleChoice_check_answer(q, user_answer) ==
    RetBool(PyEq(user_answer, q.correct_answer))

MultipleSelect_check_answer(q, user_answer) ==
    IF user_answer.kind # "list" THEN RetBool(FALSE)
    ELSE IF Range(user_answer.v) = Range(q.correct_answer.v) THEN RetBool(TRUE)
    ELSE IF ~q.allow_partial_credit THEN RetBool(FALSE)
    ELSE LET correct_selected ==
                 Cardinality(Range(user_answer.v) \cap Range(q.correct_answer.v))
             incorrect_selected ==
                 Cardinality(Range(user_answer.v) \ Range(q.correct_answer.v))
             missed ==
                 Cardinality(Range(q.correct_answer.v) \ Range(user_answer.v))
         IN IF incorrect_selected > 0 THEN RetFloat(Zero)
            ELSE IF missed > 0
                 THEN RetFloat(Frac(correct_selected, Len(q.correct_answer.v)))
                 ELSE RetBool(TRUE)

\* dict.get(k): None for a missing key
DictGet(d, k) == IF k \in DOMAIN d THEN d[k] ELSE None

Matching_check_answer(q, user_answer) ==
    IF user_answer.kind # "dict" THEN RetBool(FALSE)
    ELSE IF user_answer.v = q.correct_answer.v THEN RetBool(TRUE)
    ELSE IF ~q.allow_partial_credit THEN RetBool(FALSE)
    ELSE LET correct_matches ==
                 Cardinality({k \in DOMAIN user_answer.v :
                                 DictGet(q.correct_answer.v, k) = user_answer.v[k]})
         IN RetFloat(Frac(correct_matches, Cardinality(DOMAIN q.correct_answer.v)))

TrueTokens == {<<"t", "r", "u", "e">>, <<"t">>, <<"y", "e", "s">>, <<"y">>, <<"1">>}
FalseTokens == {<<"f", "a", "l", "s", "e">>, <<"f">>, <<"n", "o">>, <<"n">>, <<"0">>}

\* a check that reads the string as typed, blanks included
TrueFalse_check_answer_unstripped(q, user_answer) ==
    IF user_answer.kind = "bool" THEN RetBool(user_answer.v = q.correct_answer.v)
    ELSE IF user_answer.kind = "text"
    THEN LET normalized == Lower(user_answer.v)
         IN IF q.correct_answer.v THEN RetBool(normalized \in TrueTokens)
            ELSE RetBool(normalized \in FalseTokens)
    ELSE IF user_answer.kind \in {"int", "float"}
    THEN RetBool(Truthy(user_answer) = q.correct_answer.v)
    ELSE RetBool(FALSE)

\* TrueFalseQuestion.check_answer; a bool is looked at before an int, a bool
\* being an int in Python
TrueFalse_check_answer(q, user_answer) ==
    IF user_answer.kind = "bool" THEN RetBool(user_answer.v = q.correct_answer.v)
    ELSE IF user_answer.kind = "text"
    THEN LET normalized == Lower(Strip(user_answer.v))
         IN IF q.correct_answer.v THEN RetBool(normalized \in TrueTokens)
            ELSE RetBool(normalized \in FalseTokens)
    ELSE IF user_answer.kind \in {"int", "float"}
    THEN RetBool((IF user_answer.kind = "int" THEN user_answer.v # 0
                  ELSE user_answer.v.num # 0) = q.correct_answer.v)
    ELSE RetBool(FALSE)

\* a comparison that trims the canonical answer and the variations as well
ShortText_check_answer_trims_all(q, user_answer) ==
    IF user_answer.kind # "text" THEN Raised
    ELSE LET fold(s) == IF ~q.case_sensitive THEN Lower(Strip(s)) ELSE Strip(s)
         IN RetBool(\/ fold(user_answer.v) = fold(q.correct_answer.v)
                    \/ \E k \in DOMAIN q.accepted_variations :
                          fold(user_answer.v) = fold(q.accepted_variations[k]))

\* ShortTextQuestion.check_answer; only a str has strip()
ShortText_check_answer(q, user_answer) ==
    IF user_answer.kind # "text" THEN Raised
    ELSE LET stripped == Strip(user_answer.v)
             user_text == IF ~q.case_sensitive THEN Lower(stripped) ELSE stripped
             correct == IF ~q.case_sensitive THEN Lower(q.correct_answer.v)
                        ELSE q.correct_answer.v
             compare_variation(variation) ==
                 IF ~q.case_sensitive THEN Lower(variation) ELSE variation
         IN IF user_text = correct THEN RetBool(TRUE)
            ELSE IF \E k \in DOMAIN q.accepted_variations :
                       user_text = compare_variation(q.accepted_variations[k])
                 THEN RetBool(TRUE)
                 ELSE RetBool(FALSE)

\* question.check_answer(user_answer), dispatched on the variant
check_answer(q, user_answer) ==
    CASE q.question_type = "multiple_choice" ->
             MultipleChoice_check_answer(q, user_answer)
      [] q.question_type = "multiple_select" ->
             MultipleSelect_check_answer(q, user_answer)
      [] q.question_type = "matching" ->
             Matching_check_answer(q, user_answer)
      [] q.question_type = "short_text" ->
             ShortText_check_answer(q, user_answer)
      [] q.question_type = "true_false" ->
             TrueFalse_check_answer(q, user_answer)

-----------------------------------------------------------------------------
(* Results *)

NoLimit == -1
NoTime == -1
NoResult == <<>>

QuestionResult(question_index, user_answer, correct_answer, status, time_taken, score) ==
    [question_index |-> question_index, user_answer |-> user_answer,
     correct_answer |-> correct_answer, status |-> status,
     time_taken |-> time_taken, score |-> score]

QuizResult(total_questions, correct_answers, time_taken, question_results, partial_answers) ==
    [total_questions |-> total_questions, correct_answers |-> correct_answers,
     time_taken |-> time_taken, question_results |-> question_results,
     partial_answers |-> partial_answers]

RECURSIVE SumScores(_)
SumScores(rs) ==
    IF rs = <<>> THEN Zero ELSE FracAdd(rs[1].score, SumScores(Tail(rs)))

\* a percentage of the full-credit count alone
score_percentage_by_count(r) ==
    IF r.total_questions = 0 THEN Zero
    ELSE FracMulInt(Frac(r.correct_answers, r.total_questions), 100)

\* QuizResult.score_percentage
score_percentage(r) ==
    IF r.total_questions = 0 THEN Zero
    ELSE FracMulInt(FracDivInt(SumScores(r.question_results), r.total_questions), 100)

\* QuizResult.average_time_per_question
average_time_per_question(r) ==
    IF r.total_questions = 0 THEN Zero
    ELSE Frac(r.time_taken, r.total_questions)

CountStatus(rs, st) == Cardinality({k \in DOMAIN rs : rs[k].status = st})
skipped_count(r) == CountStatus(r.question_results, "skipped")
timeout_count(r) == CountStatus(r.question_results, "timeout")

-----------------------------------------------------------------------------
(* The quizzes and answers the engine is run on *)

QuestionPool ==
    << MultipleChoiceQuestion(<<"3", "4", "5">>, "4", NoLimit),
       MultipleSelectQuestion(<<"2", "3", "4", "5">>, <<"2", "3", "5">>, TRUE, 1),
       MatchingQuestion([k \in {"p1", "p2"} |-> IF k = "p1" THEN Str("x") ELSE Str("y")],
                        TRUE, NoLimit),
       ShortTextQuestion(<<"a">>, FALSE, <<>>, NoLimit) >>

\* what the answer provider may return for each question of the pool
AnswerChoices ==
    << <<None, Str("4"), Str("3")>>,
       <<None, List(<<"5", "3", "2">>), List(<<"2", "3">>), List(<<>>)>>,
       <<None,
         Dict([k \in {"p1", "p2"} |-> IF k = "p1" THEN Str("x") ELSE Str("y")]),
         Dict([k \in {"p1", "p2", "zz"} |->
                 IF k = "p1" THEN Str("x") ELSE IF k = "p2" THEN Str("y") ELSE None]),
         Dict([k \in {"p1", "p2", "zz"} |->
                 IF k = "p1" THEN Str("x") ELSE IF k = "p2" THEN Str("y") ELSE Str("q")])>>,
       <<Text(<<"A">>), List(<<>>)>> >>

SeqsUpTo(S, n) == UNION {[1..m -> S] : m \in 0..n}

\* the question lists: each question of the pool is added to a quiz at most once
Quizzes ==
    {s \in SeqsUpTo(DOMAIN QuestionPool, MaxQuestions) :
        \A a, b \in DOMAIN s : a # b => s[a] # s[b]}

Shuffles(s) ==
    {t \in [DOMAIN s -> Range(s)] :
        \E f \in [DOMAIN s -> DOMAIN s] :
            /\ \A a, b \in DOMAIN s : a # b => f[a] # f[b]
            /\ \A a \in DOMAIN s : t[a] = s[f[a]]}

-----------------------------------------------------------------------------
(* Quiz.execute and Quiz.execute_async *)

Runs == 1..NumRuns

IdleRun ==
    [pc |-> "idle", mode |-> "", i |-> 0, questions_to_run |-> <<>>,
     results |-> <<>>, correct_count |-> 0, partial_count |-> 0,
     question_start |-> NoTime, own_start |-> NoTime, end_time |-> NoTime,
     events |-> <<>>,
     answers |-> <<>>, returned |-> NoResult, calls |-> 0]

\* a check that lets the run go on at the moment the budget is just used up
is_time_up_late(tl, st, t) == tl # NoLimit /\ st # NoTime /\ t - st > tl

\* Quiz.get_remaining_time() <= 0, with get_remaining_time() not None
is_time_up(tl, st, t) ==
    IF tl = NoLimit \/ st = NoTime THEN FALSE
    ELSE LET elapsed == t - st
             remaining == IF tl - elapsed > 0 THEN tl - elapsed ELSE 0
         IN remaining <= 0

\* an engine that refuses a skip when allow_skip is off
StatusAndScore_skip_refused(q, user_answer) ==
    IF user_answer.kind = "none"
    THEN [status |-> IF allow_skip THEN "skipped" ELSE "incorrect",
          score |-> Zero, correct |-> 0, partial |-> 0]
    ELSE LET check_result == check_answer(q, user_answer)
         IN IF check_result.isbool
            THEN [status |-> IF check_result.b THEN "correct" ELSE "incorrect",
                  score |-> IF check_result.b THEN One ELSE Zero,
                  correct |-> IF check_result.b THEN 1 ELSE 0, partial |-> 0]
            ELSE [status |-> IF FracLt(Zero, check_result.f) THEN "partial" ELSE "incorrect",
                  score |-> check_result.f,
                  correct |-> 0,
                  partial |-> IF FracLt(Zero, check_result.f) THEN 1 ELSE 0]

\* an engine that counts every fractional check result as partial credit
StatusAndScore_counts_every_fraction(q, user_answer) ==
    IF user_answer.kind = "none"
    THEN [status |-> "skipped", score |-> Zero, correct |-> 0, partial |-> 0]
    ELSE LET check_result == check_answer(q, user_answer)
         IN IF check_result.isbool
            THEN [status |-> IF check_result.b THEN "correct" ELSE "incorrect",
                  score |-> IF check_result.b THEN One ELSE Zero,
                  correct |-> IF check_result.b THEN 1 ELSE 0, partial |-> 0]
            ELSE [status |-> IF FracLt(Zero, check_result.f) THEN "partial" ELSE "incorrect",
                  score |-> check_result.f,
                  correct |-> 0,
                  partial |-> 1]

\* the status and score of an answered question
StatusAndScore(q, user_answer) ==
    IF user_answer.kind = "none"
    THEN [status |-> "skipped", score |-> Zero, correct |-> 0, partial |-> 0]
    ELSE LET check_result == check_answer(q, user_answer)
         IN IF check_result.isbool
            THEN [status |-> IF check_result.b THEN "correct" ELSE "incorrect",
                  score |-> IF check_result.b THEN One ELSE Zero,
                  correct |-> IF check_result.b THEN 1 ELSE 0, partial |-> 0]
            ELSE [status |-> IF FracLt(Zero, check_result.f) THEN "partial" ELSE "incorrect",
                  score |-> check_result.f,
                  correct |-> 0,
                  partial |-> IF FracLt(Zero, check_result.f) THEN 1 ELSE 0]

\* execute: the results appended when the aggregate time is up before ordinal i
TimeoutResults(i, n, question) ==
    [j \in 1..(n - i) |->
        QuestionResult(i + (j - 1) - 1, Str(""), question.correct_answer,
                       "timeout", 0, Zero)]

\* the QuizResult assembled after the loop
Assemble(loc, st, t) ==
    QuizResult(Len(loc.questions_to_run), loc.correct_count, t - st,
               loc.results, loc.partial_count)

Finish(loc, st, t) ==
    [loc EXCEPT !.pc = "done", !.end_time = t,
                !.returned = <<Assemble(loc, st, t)>>]

\* a loop that requests the answer before it announces the question
Boundary_asks_first(loc, i, tl, st, t) ==
    LET n == Len(loc.questions_to_run) IN
    IF i > n THEN Finish([loc EXCEPT !.i = i], st, t)
    ELSE LET question == QuestionPool[loc.questions_to_run[i]] IN
         IF is_time_up(tl, st, t)
         THEN Finish([loc EXCEPT
                        !.i = i,
                        !.events = Append(@, [ev |-> "timeout_callback",
                                             q |-> loc.questions_to_run[i],
                                             i |-> i, n |-> n]),
                        !.results = IF loc.mode = "sync"
                                    THEN @ \o TimeoutResults(i, n, question)
                                    ELSE @],
                     st, t)
         ELSE [loc EXCEPT
                 !.pc = "awaiting",
                 !.i = i,
                 !.question_start = t,
                 !.events = @ \o << [ev |-> "answer_provider",
                                     q |-> loc.questions_to_run[i], i |-> i - 1,
                                     t |-> t],
                                    [ev |-> "question_callback",
                                     q |-> loc.questions_to_run[i], i |-> i, n |-> n] >>]

\* the top of the loop for ordinal i, up to the next answer request or the return
Boundary(loc, i, tl, st, t) ==
    LET n == Len(loc.questions_to_run) IN
    IF i > n THEN Finish([loc EXCEPT !.i = i], st, t)
    ELSE LET question == QuestionPool[loc.questions_to_run[i]] IN
         IF is_time_up(tl, st, t)
         THEN Finish([loc EXCEPT
                        !.i = i,
                        !.events = Append(@, [ev |-> "timeout_callback",
                                             q |-> loc.questions_to_run[i],
                                             i |-> i, n |-> n]),
                        !.results = IF loc.mode = "sync"
                                    THEN @ \o TimeoutResults(i, n, question)
                                    ELSE @],
                     st, t)
         ELSE [loc EXCEPT
                 !.pc = "awaiting",
                 !.i = i,
                 !.question_start = t,
                 !.events = @ \o << [ev |-> "question_callback",
                                     q |-> loc.questions_to_run[i], i |-> i, n |-> n],
                                    [ev |-> "answer_provider",
                                     q |-> loc.questions_to_run[i], i |-> i - 1,
                                     t |-> t] >>]

\* a store that appends the new question results to those of the stored result
Commit_merges(p, loc) ==
    /\ run' = [run EXCEPT ![p] = loc]
    /\ last_result' =
          IF loc.pc # "done" THEN last_result
          ELSE IF last_result = NoResult THEN loc.returned
          ELSE <<[loc.returned[1] EXCEPT
                    !.question_results = last_result[1].question_results \o @]>>

Commit(p, loc) ==
    /\ run' = [run EXCEPT ![p] = loc]
    /\ last_result' = IF loc.pc = "done" THEN loc.returned ELSE last_result

\* a call that enters the loop without looking at the question list
Execute_unchecked(p, mode) ==
    /\ run[p].pc = "idle"
    /\ start_time' = now
    /\ \E order \in (IF randomize_order THEN Shuffles(questions) ELSE {questions}) :
          Commit(p, Boundary([IdleRun EXCEPT !.mode = mode,
                                             !.own_start = now,
                                             !.questions_to_run = order,
                                             !.returned = run[p].returned,
                                             !.calls = run[p].calls + 1],
                             1, time_limit, now, now))
    /\ UNCHANGED <<questions, time_limit, allow_skip, randomize_order, now>>
    /\ UNCHANGED <<cq, submitted, outcome, qr>>
    /\ UNCHANGED otherVars

\* a call that restarts the clock before it looks at the question list
Execute_restarts_clock(p, mode) ==
    /\ run[p].pc = "idle"
    /\ start_time' = now
    /\ IF questions = <<>>
       THEN /\ run' = [run EXCEPT ![p].pc = "error", ![p].mode = mode,
                                  ![p].calls = @ + 1]
            /\ UNCHANGED last_result
       ELSE \E order \in (IF randomize_order THEN Shuffles(questions)
                          ELSE {questions}) :
                  Commit(p, Boundary([IdleRun EXCEPT !.mode = mode,
                                                     !.own_start = now,
                                                     !.questions_to_run = order,
                                                     !.returned = run[p].returned,
                                                     !.calls = run[p].calls + 1],
                                     1, time_limit, now, now))
    /\ UNCHANGED <<questions, time_limit, allow_skip, randomize_order, now>>
    /\ UNCHANGED <<cq, submitted, outcome, qr>>
    /\ UNCHANGED otherVars

\* a call that shuffles the stored list itself
Execute_shuffles_in_place(p, mode) ==
    /\ run[p].pc = "idle"
    /\ IF questions = <<>>
       THEN /\ run' = [run EXCEPT ![p].pc = "error", ![p].mode = mode,
                                  ![p].calls = @ + 1]
            /\ UNCHANGED <<start_time, last_result, questions>>
       ELSE /\ start_time' = now
            /\ \E order \in (IF randomize_order THEN Shuffles(questions)
                             ELSE {questions}) :
                  /\ questions' = order
                  /\ Commit(p, Boundary([IdleRun EXCEPT !.mode = mode,
                                                        !.own_start = now,
                                                        !.questions_to_run = order,
                                                        !.returned = run[p].returned,
                                                        !.calls = run[p].calls + 1],
                                        1, time_limit, now, now))
    /\ UNCHANGED <<time_limit, allow_skip, randomize_order, now>>
    /\ UNCHANGED <<cq, submitted, outcome, qr>>
    /\ UNCHANGED otherVars

\* the call, up to the first answer request
Execute(p, mode) ==
    /\ run[p].pc = "idle"
    /\ IF questions = <<>>
       THEN /\ run' = [run EXCEPT ![p].pc = "error", ![p].mode = mode,
                                  ![p].calls = @ + 1]
            /\ UNCHANGED <<start_time, last_result>>
       ELSE /\ start_time' = now
            /\ \E order \in (IF randomize_order THEN Shuffles(questions)
                             ELSE {questions}) :
                  Commit(p, Boundary([IdleRun EXCEPT !.mode = mode,
                                                     !.own_start = now,
                                                     !.questions_to_run = order,
                                                     !.returned = run[p].returned,
                                                     !.calls = run[p].calls + 1],
                                     1, time_limit, now, now))
    /\ UNCHANGED <<questions, time_limit, allow_skip, randomize_order, now>>
    /\ UNCHANGED <<cq, submitted, outcome, qr>>
    /\ UNCHANGED otherVars

\* the answer provider returns user_answer
Answer(p, user_answer) ==
    LET loc == run[p]
        i == loc.i
        question == QuestionPool[loc.questions_to_run[i]]
        time_taken == now - loc.question_start
        s == StatusAndScore(question, user_answer)
        result == QuestionResult(i - 1, OrEmpty(user_answer), question.correct_answer,
                                 s.status, time_taken, s.score)
    IN /\ IF user_answer.kind # "none" /\ Raises(check_answer(question, user_answer))
          THEN \* the exception of check_answer leaves the call: nothing is stored
               /\ run' = [run EXCEPT ![p].pc = "raised", ![p].end_time = now]
               /\ UNCHANGED last_result
          ELSE Commit(p, Boundary([loc EXCEPT
                     !.results = Append(@, result),
                     !.correct_count = @ + s.correct,
                     !.partial_count = @ + s.partial,
                     !.answers = Append(@, user_answer),
                     !.events = Append(@, [ev |-> "result_callback",
                                           q |-> loc.questions_to_run[i], i |-> i,
                                           answer |-> OrEmpty(user_answer),
                                           status |-> s.status,
                                           time_taken |-> time_taken])],
                   i + 1, time_limit, start_time, now))
       /\ UNCHANGED <<questions, time_limit, allow_skip, randomize_order, now, start_time>>
       /\ UNCHANGED <<cq, submitted, outcome, qr>>
       /\ UNCHANGED otherVars

\* asyncio.wait_for bounds the wait when question.time_limit is truthy
HasTimeLimit(question) == question.time_limit # NoLimit /\ question.time_limit # 0

AnswerReturns(p) ==
    /\ run[p].pc = "awaiting"
    /\ LET question == QuestionPool[run[p].questions_to_run[run[p].i]]
           choices == AnswerChoices[run[p].questions_to_run[run[p].i]]
       IN /\ (run[p].mode = "async" /\ HasTimeLimit(question))
                 => now - run[p].question_start <= question.time_limit
          /\ \E k \in DOMAIN choices : Answer(p, choices[k])

\* a TimeoutError that ends the loop instead of continuing it
QuestionTimeout_aborts(p) ==
    /\ run[p].pc = "awaiting"
    /\ run[p].mode = "async"
    /\ LET loc == run[p]
           i == loc.i
           question == QuestionPool[loc.questions_to_run[i]]
           time_taken == now - loc.question_start
       IN /\ HasTimeLimit(question)
          /\ time_taken >= question.time_limit
          /\ Commit(p, Finish([loc EXCEPT
                        !.results = Append(@, QuestionResult(i - 1, Str(""),
                                               question.correct_answer, "timeout",
                                               time_taken, Zero)),
                        !.answers = Append(@, [kind |-> "timed_out", v |-> ""])],
                      start_time, now))
    /\ UNCHANGED <<questions, time_limit, allow_skip, randomize_order, now, start_time>>
    /\ UNCHANGED <<cq, submitted, outcome, qr>>
    /\ UNCHANGED otherVars

\* execute_async: asyncio.TimeoutError from wait_for
QuestionTimeout(p) ==
    /\ run[p].pc = "awaiting"
    /\ run[p].mode = "async"
    /\ LET loc == run[p]
           i == loc.i
           question == QuestionPool[loc.questions_to_run[i]]
           time_taken == now - loc.question_start
       IN /\ HasTimeLimit(question)
          /\ time_taken >= question.time_limit
          /\ Commit(p, Boundary([loc EXCEPT
                        !.results = Append(@, QuestionResult(i - 1, Str(""),
                                               question.correct_answer, "timeout",
                                               time_taken, Zero)),
                        !.answers = Append(@, [kind |-> "timed_out", v |-> ""])],
                      i + 1, time_limit, start_time, now))
    /\ UNCHANGED <<questions, time_limit, allow_skip, randomize_order, now, start_time>>
    /\ UNCHANGED <<cq, submitted, outcome, qr>>
    /\ UNCHANGED otherVars

\* time passes while an answer is awaited
Tick ==
    /\ now < MaxClock
    /\ \E p \in Runs : run[p].pc = "awaiting"
    /\ now' = now + 1
    /\ UNCHANGED <<questions, time_limit, allow_skip, randomize_order,
                   last_result, start_time, run>>
    /\ UNCHANGED <<cq, submitted, outcome, qr>>
    /\ UNCHANGED otherVars

NoQuestion == MultipleChoiceQuestion(<<"3", "4", "5">>, "4", NoLimit)
NoCall == <<>>
\* no constructor, display property, generator, timer or list edit is in use
NoOtherCalls ==
    ctor = NoCall /\ display = NoCall /\ gen = NoCall /\ timer = NoCall /\ edit = NoCall
EmptyQuizResult == QuizResult(0, 0, 0, <<>>, 0)

Init ==
    /\ questions \in Quizzes
    /\ time_limit \in {NoLimit} \cup 0..MaxTimeLimit
    /\ allow_skip \in BOOLEAN
    /\ randomize_order \in BOOLEAN
    /\ last_result = NoResult
    /\ start_time = NoTime
    /\ now = 0
    /\ run = [p \in Runs |-> IdleRun]
    /\ cq = NoQuestion
    /\ submitted = None
    /\ outcome = <<>>
    /\ qr = EmptyQuizResult
    /\ NoOtherCalls

\* a single invocation: the first run, while no other has been started
Sequential(p) == \A o \in Runs : o >= p /\ (o # p => run[o].pc = "idle")

Next ==
    \/ \E p \in Runs : Sequential(p) /\ Execute(p, "sync")
    \/ \E p \in Runs : Sequential(p) /\ Execute(p, "async")
    \/ \E p \in Runs : AnswerReturns(p)
    \/ \E p \in Runs : QuestionTimeout(p)
    \/ Tick

Spec == Init /\ [][Next]_vars

-----------------------------------------------------------------------------
(* One call after another on the same quiz *)

\* the call is over: the caller holds what it returned (or its exception), and
\* the locals of the call are gone
Return(p) ==
    /\ run[p].pc \in {"done", "error", "raised"}
    /\ run[p].calls < MaxCalls
    /\ run' = [run EXCEPT ![p] = [IdleRun EXCEPT !.returned = run[p].returned,
                                                !.calls = run[p].calls]]
    /\ UNCHANGED <<questions, time_limit, allow_skip, randomize_order,
                   last_result, start_time, now>>
    /\ UNCHANGED <<cq, submitted, outcome, qr>>
    /\ UNCHANGED otherVars

NextSeq ==
    \/ \E p \in Runs : Sequential(p) /\ Execute(p, "sync")
    \/ \E p \in Runs : Sequential(p) /\ Execute(p, "async")
    \/ \E p \in Runs : AnswerReturns(p)
    \/ \E p \in Runs : QuestionTimeout(p)
    \/ \E p \in Runs : Return(p)
    \/ Tick

\* the flags that no step of the engine reads are fixed here, and the quizzes
\* are the shorter ones
InitSeq == Init /\ ~allow_skip /\ ~randomize_order /\ Len(questions) < MaxQuestions

SpecSeq == InitSeq /\ [][NextSeq]_vars

-----------------------------------------------------------------------------
(* Quizzes long enough for the aggregate limit to cut off several questions *)

LongQuizzes ==
    {s \in [1..(MaxQuestions + 1) -> DOMAIN QuestionPool] :
        \A a, b \in DOMAIN s : a # b => s[a] # s[b]}

InitLong ==
    /\ questions \in LongQuizzes
    /\ time_limit \in 0..MaxTimeLimit
    /\ allow_skip = FALSE
    /\ randomize_order = FALSE
    /\ last_result = NoResult
    /\ start_time = NoTime
    /\ now = 0
    /\ run = [p \in Runs |-> IdleRun]
    /\ cq = NoQuestion
    /\ submitted = None
    /\ outcome = <<>>
    /\ qr = EmptyQuizResult
    /\ NoOtherCalls

SpecLong == InitLong /\ [][Next]_vars

-----------------------------------------------------------------------------
(* Edits of the question list between calls *)

\* a Question object of the pool, as an argument
AQuestion(k) == [kind |-> "question", v |-> k]

\* isinstance(question, Question)
IsQuestion(x) == x.kind = "question"

\* the questions handed to add_question and add_questions, and None
Addable == {AQuestion(k) : k \in {1, Len(QuestionPool)}} \cup {None}

\* the edit that acted last: its name, its argument, whether it raised, the
\* list it found, and the number of edits so far
Edited(op, arg, raised) ==
    [op |-> op, arg |-> arg, raised |-> raised, before |-> questions,
     count |-> edit.count + 1]

InitEdit ==
    /\ questions = <<>>
    /\ time_limit = NoLimit
    /\ allow_skip = FALSE
    /\ randomize_order = FALSE
    /\ last_result = NoResult
    /\ start_time = NoTime
    /\ now = 0
    /\ run = [p \in Runs |-> IdleRun]
    /\ cq = NoQuestion
    /\ submitted = None
    /\ outcome = <<>>
    /\ qr = EmptyQuizResult
    /\ edit = [op |-> "init", arg |-> <<>>, raised |-> FALSE, before |-> <<>>, count |-> 0]
    /\ ctor = NoCall /\ display = NoCall /\ gen = NoCall /\ timer = NoCall

\* an edit runs between the calls of execute, after the last one has returned
BetweenCalls ==
    /\ edit.count < MaxEdits
    /\ \A p \in Runs : run[p].pc = "idle"

EditLeaves ==
    /\ UNCHANGED <<time_limit, allow_skip, randomize_order, start_time, now, run>>
    /\ UNCHANGED <<cq, submitted, outcome, qr>>
    /\ UNCHANGED <<ctor, display, gen, timer>>

\* the list after add_question(x) for each x of xs in turn, up to the first
\* that raises
RECURSIVE Appended(_, _)
Appended(qs, xs) ==
    IF xs = <<>> \/ ~IsQuestion(Head(xs)) THEN qs
    ELSE Appended(Append(qs, Head(xs).v), Tail(xs))

AddQuestion ==
    /\ BetweenCalls
    /\ Len(questions) < MaxQuestions
    /\ \E question \in Addable :
          /\ questions' = IF IsQuestion(question) THEN Append(questions, question.v)
                          ELSE questions
          /\ edit' = Edited("add_question", <<question>>, ~IsQuestion(question))
    /\ UNCHANGED last_result
    /\ EditLeaves

\* an add_questions that checks the whole argument before it appends
AddQuestions_all_or_nothing ==
    /\ BetweenCalls
    /\ \E qs \in SeqsUpTo(Addable, MaxAdd) :
          /\ Len(Appended(questions, qs)) <= MaxQuestions
          /\ questions' = IF \E k \in DOMAIN qs : ~IsQuestion(qs[k]) THEN questions
                          ELSE Appended(questions, qs)
          /\ edit' = Edited("add_questions", qs, \E k \in DOMAIN qs : ~IsQuestion(qs[k]))
    /\ UNCHANGED last_result
    /\ EditLeaves

AddQuestions ==
    /\ BetweenCalls
    /\ \E qs \in SeqsUpTo(Addable, MaxAdd) :
          /\ Len(Appended(questions, qs)) <= MaxQuestions
          /\ questions' = Appended(questions, qs)
          /\ edit' = Edited("add_questions", qs, \E k \in DOMAIN qs : ~IsQuestion(qs[k]))
    /\ UNCHANGED last_result
    /\ EditLeaves

\* list.pop(index)
Pop(qs, index) ==
    [k \in 1..(Len(qs) - 1) |-> IF k <= index THEN qs[k] ELSE qs[k + 1]]

RemoveQuestion ==
    /\ BetweenCalls
    /\ \E index \in -1..MaxQuestions :
          /\ questions' = IF 0 <= index /\ index < Len(questions)
                          THEN Pop(questions, index) ELSE questions
          /\ edit' = Edited("remove_question", <<index>>, FALSE)
    /\ UNCHANGED last_result
    /\ EditLeaves

Clear ==
    /\ BetweenCalls
    /\ questions' = <<>>
    /\ last_result' = NoResult
    /\ edit' = Edited("clear", <<>>, FALSE)
    /\ EditLeaves

NextEdit ==
    \/ \E p \in Runs : Sequential(p) /\ Execute(p, "sync")
    \/ \E p \in Runs : Sequential(p) /\ Execute(p, "async")
    \/ \E p \in Runs : AnswerReturns(p)
    \/ \E p \in Runs : Return(p)
    \/ Tick
    \/ AddQuestion
    \/ RemoveQuestion
    \/ Clear

SpecEdit == InitEdit /\ [][NextEdit]_vars

\* the edits alone, on a quiz that is never run
NextAdd ==
    \/ AddQuestion
    \/ AddQuestions
    \/ RemoveQuestion
    \/ Clear

SpecAdd == InitEdit /\ [][NextAdd]_vars

-----------------------------------------------------------------------------
(* Concurrent invocations of execute_async on one quiz: the tasks           *)
(* interleave at the awaits of the answer provider.                         *)

NextConc ==
    \/ \E p \in Runs : Execute(p, "async")
    \/ \E p \in Runs : AnswerReturns(p)
    \/ \E p \in Runs : QuestionTimeout(p)
    \/ Tick

\* the flags that no step of the engine reads are fixed here
InitConc == Init /\ ~allow_skip /\ ~randomize_order

SpecConc == InitConc /\ [][NextConc]_vars

-----------------------------------------------------------------------------
(* check_answer as a function of the question and the submission *)

Letters == {"a", "b", "c"}
OptionLists == {<<"a", "b">>, <<"a", "b", "c">>}

\* the MultipleSelectQuestions that construction lets through
MultipleSelectQuestions ==
    {MultipleSelectQuestion(opts, ca, partial, NoLimit) :
        <<opts, ca, partial>> \in
            {c \in OptionLists \X SeqsUpTo(Letters, MaxCorrect) \X BOOLEAN :
                ~MultipleSelect_rejects(c[1], c[2])}}

MultipleSelectSubmissions ==
    {List(xs) : xs \in SeqsUpTo(Letters, MaxSubmit)} \cup {Str("a")}

PromptNames == <<"p1", "p2", "p3", "p4", "p5">>
Prompts == {PromptNames[k] : k \in 1..MaxPairs}
PairValues == {Str("x"), Str("y")}

\* the MatchingQuestions that construction lets through
MatchingQuestions ==
    {MatchingQuestion(c[1], c[2], NoLimit) :
        c \in {d \in (UNION {[K -> PairValues] : K \in SUBSET Prompts}) \X BOOLEAN :
                 ~Matching_rejects(d[1])}}

MatchingSubmissions ==
    {Dict(f) : f \in UNION {[K -> PairValues \cup {None}] : K \in SUBSET Prompts}}
        \cup {Str("x")}

\* a lower-case letter, its upper-case form and the blank
Chars == {"a", "A", " "}
Texts == SeqsUpTo(Chars, MaxText)
\* a variation in the other case, and one with a trailing blank
Variations == {<<"A">>, <<"a", " ">>}

ShortTextQuestions ==
    {ShortTextQuestion(c, cs, vs, NoLimit) :
        c \in Texts, cs \in BOOLEAN, vs \in SeqsUpTo(Variations, MaxVariations)}

ShortTextSubmissions == {Text(s) : s \in Texts} \cup {List(<<>>)}

TrueFalseQuestions == {TrueFalseQuestion(b, NoLimit) : b \in BOOLEAN}

\* the tokens of both kinds, and strings that are no token
Words ==
    TrueTokens \cup FalseTokens
        \cup {<<>>, <<"2">>, <<"t", "r", "u">>, <<"o", "n">>, <<"y", " ", "e", "s">>}
Capitalised(s) == [k \in DOMAIN s |-> IF k = 1 THEN UpperChar(s[k]) ELSE s[k]]
Blanks(n) == [k \in 1..n |-> " "]

TrueFalseSubmissions ==
    {Text(Blanks(lead) \o w \o Blanks(trail)) :
        lead \in 0..MaxPad, trail \in 0..MaxPad,
        w \in UNION {{x, Upper(x), Capitalised(x)} : x \in Words}}
    \cup {Bool(b) : b \in BOOLEAN}
    \cup {PyInt(n) : n \in -1..2}
    \cup {PyFloat(Zero), PyFloat(Frac(1, 2))}
    \cup {None, List(<<>>), List(<<"y">>)}

InitCheck ==
    /\ questions = <<>>
    /\ time_limit = NoLimit
    /\ allow_skip = FALSE
    /\ randomize_order = FALSE
    /\ last_result = NoResult
    /\ start_time = NoTime
    /\ now = 0
    /\ run = [p \in Runs |-> IdleRun]
    /\ \/ cq \in MultipleSelectQuestions \cup MatchingQuestions
       \/ cq \in ShortTextQuestions
       \/ cq \in TrueFalseQuestions
    /\ submitted = None
    /\ outcome = <<>>
    /\ qr = EmptyQuizResult
    /\ NoOtherCalls

\* one call cq.check_answer(user_answer)
CheckAnswer(user_answer) ==
    /\ outcome = <<>>
    /\ submitted' = user_answer
    /\ outcome' = <<check_answer(cq, user_answer)>>
    /\ UNCHANGED <<cq, qr>>
    /\ UNCHANGED engineVars
    /\ UNCHANGED otherVars

CheckMultipleSelect ==
    /\ cq.question_type = "multiple_select"
    /\ \E ua \in MultipleSelectSubmissions : CheckAnswer(ua)

CheckMatching ==
    /\ cq.question_type = "matching"
    /\ \E ua \in MatchingSubmissions : CheckAnswer(ua)

CheckShortText ==
    /\ cq.question_type = "short_text"
    /\ \E ua \in ShortTextSubmissions : CheckAnswer(ua)

CheckTrueFalse ==
    /\ cq.question_type = "true_false"
    /\ \E ua \in TrueFalseSubmissions : CheckAnswer(ua)

NextCheck == CheckMultipleSelect \/ CheckMatching \/ CheckShortText \/ CheckTrueFalse

SpecCheck == InitCheck /\ [][NextCheck]_vars

-----------------------------------------------------------------------------
(* QuizResult's derived properties, on results built one entry at a time *)

ScoreChoices == {<<"correct", One>>, <<"partial", Frac(1, 2)>>}

InitAgg ==
    /\ questions = <<>>
    /\ time_limit = NoLimit
    /\ allow_skip = FALSE
    /\ randomize_order = FALSE
    /\ last_result = NoResult
    /\ start_time = NoTime
    /\ now = 0
    /\ run = [p \in Runs |-> IdleRun]
    /\ cq = NoQuestion
    /\ submitted = None
    /\ outcome = <<>>
    /\ qr \in {QuizResult(total, 0, t, <<>>, 0) :
                 total \in 0..MaxResults, t \in 0..MaxClock}
    /\ NoOtherCalls

\* one more QuestionResult in qr.question_results
AddResult ==
    /\ Len(qr.question_results) < MaxResults
    /\ \E c \in ScoreChoices :
          qr' = [qr EXCEPT
                   !.question_results =
                       Append(@, QuestionResult(Len(qr.question_results), Str("A"),
                                                Str("A"), c[1], 0, c[2])),
                   !.correct_answers = @ + (IF c[1] = "correct" THEN 1 ELSE 0),
                   !.partial_answers = @ + (IF c[1] = "partial" THEN 1 ELSE 0)]
    /\ UNCHANGED <<cq, submitted, outcome>>
    /\ UNCHANGED engineVars
    /\ UNCHANGED otherVars

NextAgg == AddResult

SpecAgg == InitAgg /\ [][NextAgg]_vars

-----------------------------------------------------------------------------
(* Construction of the question variants *)

IdleEngine ==
    /\ questions = <<>>
    /\ time_limit = NoLimit
    /\ allow_skip = FALSE
    /\ randomize_order = FALSE
    /\ last_result = NoResult
    /\ start_time = NoTime
    /\ now = 0
    /\ run = [p \in Runs |-> IdleRun]

IdleCheck ==
    /\ cq = NoQuestion
    /\ submitted = None
    /\ outcome = <<>>
    /\ qr = EmptyQuizResult

\* the arguments of a constructor call that has not run yet
CtorCall(variant, options, correct, pairs) ==
    [variant |-> variant, options |-> options, correct |-> correct, pairs |-> pairs,
     result |-> "pending", question |-> NoCall]

NoPairs == [k \in {} |-> None]

CtorCalls ==
    {CtorCall("multiple_choice", opts, Str(c), NoPairs) :
        opts \in SeqsUpTo(Letters, MaxOptions), c \in Letters}
    \cup {CtorCall("multiple_select", opts, List(cs), NoPairs) :
        opts \in SeqsUpTo(Letters, MaxOptions), cs \in SeqsUpTo(Letters, MaxCorrect)}
    \cup {CtorCall("true_false", <<>>, c, NoPairs) :
        c \in {Bool(TRUE), Bool(FALSE), PyInt(1), PyInt(0), None, Text(<<"t", "r", "u", "e">>)}}
    \cup {CtorCall("matching", <<>>, None, f) :
        f \in UNION {[K -> PairValues] : K \in SUBSET Prompts}}

InitBuild ==
    /\ IdleEngine
    /\ IdleCheck
    /\ ctor \in CtorCalls
    /\ display = NoCall /\ gen = NoCall /\ timer = NoCall /\ edit = NoCall

\* the constructor raises ValueError, or the object exists
Constructed(rejects, question) ==
    /\ ctor.result = "pending"
    /\ ctor' = IF rejects THEN [ctor EXCEPT !.result = "ValueError"]
               ELSE [ctor EXCEPT !.result = "built", !.question = <<question>>]
    /\ UNCHANGED <<display, gen, timer, edit>>
    /\ UNCHANGED <<cq, submitted, outcome, qr>>
    /\ UNCHANGED engineVars

ConstructMultipleChoice ==
    /\ ctor.variant = "multiple_choice"
    /\ Constructed(MultipleChoice_rejects(ctor.options, ctor.correct.v),
                   MultipleChoiceQuestion(ctor.options, ctor.correct.v, NoLimit))

ConstructMultipleSelect ==
    /\ ctor.variant = "multiple_select"
    /\ Constructed(MultipleSelect_rejects(ctor.options, ctor.correct.v),
                   MultipleSelectQuestion(ctor.options, ctor.correct.v, FALSE, NoLimit))

ConstructTrueFalse ==
    /\ ctor.variant = "true_false"
    /\ Constructed(TrueFalse_rejects(ctor.correct),
                   TrueFalseQuestion(ctor.correct.v, NoLimit))

ConstructMatching ==
    /\ ctor.variant = "matching"
    /\ Constructed(Matching_rejects(ctor.pairs),
                   MatchingQuestion(ctor.pairs, FALSE, NoLimit))

NextBuild ==
    \/ ConstructMultipleChoice
    \/ ConstructMultipleSelect
    \/ ConstructTrueFalse
    \/ ConstructMatching

SpecBuild == InitBuild /\ [][NextBuild]_vars

-----------------------------------------------------------------------------
(* Display order of options and answers *)

\* the options of a MultipleChoice or MultipleSelect question, the answers of a
\* Matching question: construction leaves at least one option, two pairs
Displayed ==
    [attribute : {"display_options"}, items : SeqsUpTo(Letters, MaxOptions + 1) \ {<<>>},
     shuffle : BOOLEAN, cache : {<<>>}, returned : {<<>>}]
    \cup [attribute : {"display_answers"},
          items : {s \in SeqsUpTo({pv.v : pv \in PairValues}, MaxPairs) : Len(s) >= 2},
          shuffle : BOOLEAN, cache : {<<>>}, returned : {<<>>}]

InitDisplay ==
    /\ IdleEngine
    /\ IdleCheck
    /\ display \in Displayed
    /\ ctor = NoCall /\ gen = NoCall /\ timer = NoCall /\ edit = NoCall

\* an access that shuffles a fresh copy each time
Access_reshuffles ==
    /\ Len(display.returned) < MaxAccess
    /\ \E order \in Shuffles(display.items) :
          display' = [display EXCEPT
              !.cache = IF display.shuffle THEN <<order>> ELSE @,
              !.returned = Append(@, IF display.shuffle THEN order ELSE display.items)]
    /\ UNCHANGED <<ctor, gen, timer, edit>>
    /\ UNCHANGED <<cq, submitted, outcome, qr>>
    /\ UNCHANGED engineVars

\* display_options / display_answers
Access ==
    /\ Len(display.returned) < MaxAccess
    /\ \E order \in Shuffles(display.items) :
          LET cache == IF display.shuffle /\ display.cache = <<>>
                       THEN <<order>> ELSE display.cache
              shown == IF cache # <<>> /\ cache[1] # <<>> THEN cache[1] ELSE display.items
          IN display' = [display EXCEPT !.cache = cache, !.returned = Append(@, shown)]
    /\ UNCHANGED <<ctor, gen, timer, edit>>
    /\ UNCHANGED <<cq, submitted, outcome, qr>>
    /\ UNCHANGED engineVars

NextDisplay == Access

SpecDisplay == InitDisplay /\ [][NextDisplay]_vars

-----------------------------------------------------------------------------
(* AIQuestionGenerator: from the model's reply to a question *)

\* the end of an evaluation: a value, or the name of the exception raised
Value(v) == [val |-> v]
Exc(name) == [exc |-> name]
IsExc(r) == "exc" \in DOMAIN r

\* json.loads(content): the reply has no text, text that is not JSON, or a document
json_loads(content) ==
    CASE content.text = "absent" -> Exc("TypeError")
      [] content.text = "garbage" -> Exc("JSONDecodeError")
      [] OTHER -> Value(content.data)

\* data[key]
Subscript(data, key) ==
    IF data.kind # "dict" THEN Exc("TypeError")
    ELSE IF key \notin DOMAIN data.v THEN Exc("KeyError")
    ELSE Value(data.v[key])

\* the exception a constructor raises on these arguments, "" if none
MultipleChoice_raises(options, correct_answer) ==
    IF options.kind # "list" THEN "TypeError"
    ELSE IF correct_answer.kind # "str" \/ MultipleChoice_rejects(options.v, correct_answer.v)
         THEN "ValueError" ELSE ""

MultipleSelect_raises(options, correct_answers) ==
    IF correct_answers.kind # "list" THEN "TypeError"
    ELSE IF correct_answers.v # <<>> /\ options.kind # "list" THEN "TypeError"
    ELSE IF correct_answers.v = <<>> \/ MultipleSelect_rejects(options.v, correct_answers.v)
         THEN "ValueError" ELSE ""

TrueFalse_raises(correct_answer) ==
    IF TrueFalse_rejects(correct_answer) THEN "ValueError" ELSE ""

\* `not pairs or len(pairs) < 2`, then pairs.keys()
Matching_raises(pairs) ==
    CASE pairs.kind = "dict" -> IF Matching_rejects(pairs.v) THEN "ValueError" ELSE ""
      [] pairs.kind \in {"list", "text"} ->
             IF Len(pairs.v) < 2 THEN "ValueError" ELSE "AttributeError"
      [] pairs.kind = "int" -> IF pairs.v = 0 THEN "ValueError" ELSE "TypeError"
      [] OTHER -> "ValueError"

\* the keyword arguments are subscripted in order, then the constructor runs
Build(data, keys, raises, question) ==
    LET missed == {k \in DOMAIN keys : IsExc(Subscript(data, keys[k]))}
        first == CHOOSE k \in missed : \A j \in missed : k <= j
    IN IF missed # {} THEN Subscript(data, keys[first])
       ELSE IF raises # "" THEN Exc(raises)
       ELSE Value(question)

Generated(question_type, data) ==
    [question_type |-> question_type,
     correct_answer |-> CASE question_type = "multiple_select" -> data.v["correct_answers"]
                          [] question_type = "matching" -> data.v["pairs"]
                          [] OTHER -> data.v["correct_answer"]]

Arg(data, key) == IF IsExc(Subscript(data, key)) THEN None ELSE data.v[key]

parse_question_data_raw(data, question_type) ==
    CASE question_type = "multiple_choice" ->
             Build(data, <<"question", "options", "correct_answer">>,
                   MultipleChoice_raises(Arg(data, "options"), Arg(data, "correct_answer")),
                   Generated(question_type, data))
      [] question_type = "true_false" ->
             Build(data, <<"question", "correct_answer">>,
                   TrueFalse_raises(Arg(data, "correct_answer")),
                   Generated(question_type, data))
      [] question_type = "short_text" ->
             Build(data, <<"question", "correct_answer">>, "",
                   Generated(question_type, data))
      [] question_type = "multiple_select" ->
             Build(data, <<"question", "options", "correct_answers">>,
                   MultipleSelect_raises(Arg(data, "options"), Arg(data, "correct_answers")),
                   Generated(question_type, data))
      [] question_type = "matching" ->
             Build(data, <<"question", "pairs">>,
                   Matching_raises(Arg(data, "pairs")),
                   Generated(question_type, data))

\* the handler of a try block: these exceptions become the return value None
Except(r, caught) ==
    IF IsExc(r) /\ r.exc \in caught THEN Value(None) ELSE r

\* AIQuestionGenerator._parse_question_data
parse_question_data(data, question_type) ==
    Except(parse_question_data_raw(data, question_type),
           {"KeyError", "TypeError", "ValueError"})

\* the try block of generate_question_async
generate_question_async(content, question_type) ==
    LET loaded == json_loads(content)
    IN Except(IF IsExc(loaded) THEN loaded
              ELSE parse_question_data(loaded.val, question_type),
              {"JSONDecodeError", "KeyError", "ValueError"})

FieldValues(key) ==
    CASE key = "question" -> {Str("q")}
      [] key = "options" -> {List(<<"a", "b">>), PyInt(5)}
      [] key = "correct_answer" -> {Str("a"), Str("c"), Bool(TRUE)}
      [] key = "correct_answers" -> {List(<<"a", "b">>), List(<<"a">>), PyInt(5)}
      [] key = "pairs" -> {Dict([k \in {"p1", "p2"} |-> IF k = "p1" THEN Str("x") ELSE Str("y")]),
                            Dict([k \in {"p1"} |-> Str("x")]),
                            List(<<"a", "b">>), None}

Fields == {"question", "options", "correct_answer", "correct_answers", "pairs"}

\* the JSON documents: objects with some of the fields, and values that are no object
Documents ==
    {Dict(f) : f \in {g \in UNION {[K -> UNION {FieldValues(k) : k \in Fields}] :
                                       K \in SUBSET Fields} :
                        \A k \in DOMAIN g : g[k] \in FieldValues(k)}}
    \cup {List(<<"a", "b">>), PyInt(5), None}

Contents ==
    {[text |-> "json", data |-> d] : d \in Documents}
    \cup {[text |-> "garbage", data |-> None], [text |-> "absent", data |-> None]}

QuestionTypes == {"multiple_choice", "true_false", "short_text", "multiple_select", "matching"}

InitGen ==
    /\ IdleEngine
    /\ IdleCheck
    /\ gen \in [entry : {"generate_question", "generate_question_async"},
                 question_type : QuestionTypes, content : Contents,
                 result : {"pending"}, value : {None}]
    /\ ctor = NoCall /\ display = NoCall /\ timer = NoCall /\ edit = NoCall

Generate ==
    /\ gen.result = "pending"
    /\ LET r == generate_question_async(gen.content, gen.question_type)
       IN gen' = IF IsExc(r) THEN [gen EXCEPT !.result = "raised", !.value = Str(r.exc)]
                 ELSE [gen EXCEPT !.result = "returned", !.value = r.val]
    /\ UNCHANGED <<ctor, display, timer, edit>>
    /\ UNCHANGED <<cq, submitted, outcome, qr>>
    /\ UNCHANGED engineVars

\* generate_question runs generate_question_async to its end
GenerateQuestion ==
    /\ gen.entry = "generate_question"
    /\ Generate

GenerateQuestionAsync ==
    /\ gen.entry = "generate_question_async"
    /\ Generate

NextGen == GenerateQuestion \/ GenerateQuestionAsync

SpecGen == InitGen /\ [][NextGen]_vars

-----------------------------------------------------------------------------
(* TimerDisplay *)

\* TimerDisplay(duration) at the time `clock`; `created` and `last` record when
\* the timer was made and which operation acted last
TimerDisplay(duration, clock) ==
    [duration |-> duration, start_time |-> clock, paused_time |-> 0, is_paused |-> FALSE,
     clock |-> clock, created |-> clock, last |-> "init"]

get_elapsed(t) ==
    IF t.is_paused THEN t.paused_time ELSE t.clock - t.start_time

get_remaining(t) ==
    LET left == t.duration - get_elapsed(t) IN IF left > 0 THEN left ELSE 0

is_expired(t) == get_remaining(t) <= 0

InitTimer ==
    /\ IdleEngine
    /\ IdleCheck
    /\ \E duration \in 0..MaxDuration, clock \in 0..1 : timer = TimerDisplay(duration, clock)
    /\ ctor = NoCall /\ display = NoCall /\ gen = NoCall /\ edit = NoCall

TimerStep(t) ==
    /\ timer' = t
    /\ UNCHANGED <<ctor, display, gen, edit>>
    /\ UNCHANGED <<cq, submitted, outcome, qr>>
    /\ UNCHANGED engineVars

\* time passes
TimerTick ==
    /\ timer.clock < MaxTicks
    /\ TimerStep([timer EXCEPT !.clock = @ + 1, !.last = "tick"])

Pause ==
    /\ timer # NoCall
    /\ TimerStep([timer EXCEPT !.paused_time = get_elapsed(timer), !.is_paused = TRUE,
                               !.last = "pause"])

\* a resume that restarts the timer whether it is paused or not
Resume_unguarded ==
    /\ timer # NoCall
    /\ TimerStep([timer EXCEPT !.start_time = timer.clock - timer.paused_time,
                               !.is_paused = FALSE, !.last = "resume"])

Resume ==
    /\ timer # NoCall
    /\ TimerStep(IF timer.is_paused
                 THEN [timer EXCEPT !.start_time = timer.clock - timer.paused_time,
                                    !.is_paused = FALSE, !.last = "resume"]
                 ELSE [timer EXCEPT !.last = "resume"])

NextTimer == TimerTick \/ Pause \/ Resume

SpecTimer == InitTimer /\ [][NextTimer]_vars

-----------------------------------------------------------------------------
(* Properties *)

Done(p) == run[p].pc = "done"
Returned(p) == run[p].returned[1]
RunLength(p) == Len(run[p].questions_to_run)
RunQuestion(p, k) == QuestionPool[run[p].questions_to_run[k]]
\* the run ended at the boundary before an ordinal that was still to be asked
ShortCircuited(p) == Done(p) /\ run[p].i <= RunLength(p)

\* the mapping the engine is to apply to an acquired answer
ExpectedOutcome(q, a) ==
    IF a.kind = "none" THEN [status |-> "skipped", score |-> Zero]
    ELSE LET c == check_answer(q, a)
         IN IF c.isbool /\ c.b THEN [status |-> "correct", score |-> One]
            ELSE IF c.isbool THEN [status |-> "incorrect", score |-> Zero]
            ELSE IF c.f.num > 0 THEN [status |-> "partial", score |-> c.f]
            ELSE [status |-> "incorrect", score |-> Zero]

\* C1: in execute and execute_async every question whose answer acquisition
\* returned is recorded with the status and score given by the answer and by
\* check_answer's result alone (None: SKIPPED/0, True: CORRECT/1, False:
\* INCORRECT/0, float f > 0: PARTIAL/f, float 0: INCORRECT/0), whatever
\* allow_skip is.
C1_OutcomeMapping ==
    \A p \in Runs : \A k \in DOMAIN run[p].answers :
        LET a == run[p].answers[k]
            r == run[p].results[k]
            e == ExpectedOutcome(RunQuestion(p, k), a)
        IN a.kind # "timed_out" =>
              /\ r.status = e.status
              /\ FracEq(r.score, e.score)
              /\ r.question_index = k - 1

C1_Witness ==
    \E p \in Runs :
        /\ Done(p)
        /\ ~allow_skip
        /\ run[p].mode = "sync"
        /\ \E k \in DOMAIN run[p].answers :
              run[p].answers[k].kind = "none" /\ run[p].results[k].status = "skipped"
        /\ \E k \in DOMAIN run[p].answers : run[p].results[k].status = "partial"

\* C2: when the synchronous execute finds the aggregate budget exhausted
\* before ordinal i of n, every question from i to n is recorded as TIMEOUT
\* with score 0, so the QuizResult holds exactly n question results.
C2_SyncTimeoutCoversRemaining ==
    \A p \in Runs :
        (ShortCircuited(p) /\ run[p].mode = "sync") =>
            LET rs == Returned(p).question_results
            IN /\ Len(rs) = RunLength(p)
               /\ \A k \in run[p].i..RunLength(p) :
                     rs[k].status = "timeout" /\ FracEq(rs[k].score, Zero)

\* C3: when the aggregate budget is found exhausted at a question boundary,
\* execute_async returns the question results the synchronous execute
\* returns there: the results so far, then the TIMEOUT results execute
\* records for the remaining questions.
C3_AsyncTimeoutAsSync ==
    \A p \in Runs :
        (ShortCircuited(p) /\ run[p].mode = "async") =>
            LET rs == Returned(p).question_results
                i == run[p].i
            IN rs = SubSeq(run[p].results, 1, i - 1)
                      \o TimeoutResults(i, RunLength(p), RunQuestion(p, i))

\* C4: in execute_async a question that is not answered within its own time
\* limit is recorded as TIMEOUT with score 0, it alone; the run goes on, each
\* later question is asked and scored from its own answer, and with no
\* aggregate limit the QuizResult holds one result per question in run order.
C4_QuestionTimeoutIsLocal ==
    \A p \in Runs :
        run[p].mode = "async" =>
            /\ \A k \in DOMAIN run[p].answers :
                  LET a == run[p].answers[k]
                      r == run[p].results[k]
                      q == RunQuestion(p, k)
                  IN /\ r.question_index = k - 1
                     /\ IF a.kind = "timed_out"
                        THEN /\ r.status = "timeout"
                             /\ FracEq(r.score, Zero)
                             /\ HasTimeLimit(q)
                             /\ r.time_taken >= q.time_limit
                        ELSE /\ r.status # "timeout"
                             /\ r.status = ExpectedOutcome(q, a).status
            /\ run[p].pc = "awaiting" => Len(run[p].answers) = run[p].i - 1
            /\ (Done(p) /\ time_limit = NoLimit) =>
                  /\ Len(run[p].answers) = RunLength(p)
                  /\ Len(Returned(p).question_results) = RunLength(p)
                  /\ \A k \in DOMAIN Returned(p).question_results :
                        Returned(p).question_results[k].question_index = k - 1

C4_Witness ==
    \E p \in Runs :
        /\ Done(p)
        /\ run[p].mode = "async"
        /\ time_limit = NoLimit
        /\ Len(run[p].answers) = 2
        /\ run[p].answers[1].kind = "timed_out"
        /\ Returned(p).question_results[1].status = "timeout"
        /\ Returned(p).question_results[2].status = "correct"

\* C5: concurrent invocations of execute_async on one quiz interfere only
\* through the last stored result: each returned QuizResult is the one the
\* invocation would have returned alone, so its time_taken runs from the
\* invocation's own start, every question it asked was asked within the
\* aggregate budget counted from its own start, and if it stopped early the
\* budget counted from its own start was exhausted.
C5_ConcurrentRunsAsAlone ==
    \A p \in Runs :
        Done(p) =>
            /\ Returned(p).time_taken = run[p].end_time - run[p].own_start
            /\ \A k \in DOMAIN run[p].events :
                  run[p].events[k].ev = "answer_provider" =>
                      ~is_time_up(time_limit, run[p].own_start, run[p].events[k].t)
            /\ ShortCircuited(p) =>
                  is_time_up(time_limit, run[p].own_start, run[p].end_time)

CountScore(rs, x) == Cardinality({k \in DOMAIN rs : FracEq(rs[k].score, x)})

\* C6: score_percentage is (sum of the question results' scores /
\* total_questions) * 100, and 0.0 when total_questions is 0;
\* average_time_per_question is time_taken / total_questions, and 0.0 when
\* total_questions is 0; 7 scores of 1.0 and 3 of 0.5 out of 10 give 85, not 70.
C6_ScorePercentage ==
    LET total == qr.total_questions
        full == CountScore(qr.question_results, One)
        half == CountScore(qr.question_results, Frac(1, 2))
        pct == score_percentage(qr)
        avg == average_time_per_question(qr)
    IN /\ total = 0 => (pct = Zero /\ avg = Zero)
       /\ total > 0 =>
             /\ pct.num * 2 * total = (2 * full + half) * 100 * pct.den
             /\ avg.num * total = qr.time_taken * avg.den
       /\ (total = 10 /\ full = 7 /\ half = 3) =>
             (FracEq(pct, Frac(85, 1)) /\ ~FracEq(pct, Frac(70, 1)))

C6_Witness ==
    /\ qr.total_questions = 10
    /\ Len(qr.question_results) = 10
    /\ CountScore(qr.question_results, One) = 7
    /\ CountScore(qr.question_results, Frac(1, 2)) = 3
    /\ qr.time_taken > 0

\* C7: execute and execute_async on an empty question list fail before the
\* answer source or any callback is invoked (and return no result).
C7_EmptyQuizFailsFirst ==
    \A p \in Runs :
        /\ (questions = <<>> /\ run[p].pc # "idle") =>
              /\ run[p].pc = "error"
              /\ run[p].events = <<>>
              /\ run[p].answers = <<>>
              /\ run[p].returned = NoResult
              /\ last_result = NoResult
        /\ run[p].pc = "error" => questions = <<>>

C7_Witness ==
    \E p \in Runs : run[p].pc = "error" /\ run[p].mode = "async" /\ time_limit = 0

\* C8: MultipleSelectQuestion.check_answer on a list returns True when the
\* set of submitted items is the set of correct answers; otherwise False
\* without partial credit; otherwise 0.0 when an item that is not a correct
\* answer was submitted; otherwise (number of correct answers selected) /
\* (number of correct answers).
C8_MultipleSelectCheck ==
    (cq.question_type = "multiple_select" /\ outcome # <<>> /\ submitted.kind = "list") =>
        LET S == Range(submitted.v)
            C == Range(cq.correct_answer.v)
            r == outcome[1]
        IN IF S = C THEN r.isbool /\ r.b
           ELSE IF ~cq.allow_partial_credit THEN r.isbool /\ ~r.b
           ELSE IF S \ C # {} THEN ~r.isbool /\ FracEq(r.f, Zero)
           ELSE ~r.isbool /\ FracEq(r.f, Frac(Cardinality(S \cap C), Cardinality(C)))

\* C9: MatchingQuestion.check_answer with partial credit, on a mapping that
\* is not the canonical one, returns k/N: N the number of canonical pairs, k
\* the number of canonical prompts whose submitted value is the canonical
\* answer; an entry under any other key adds nothing, whatever its value.
C9_MatchingPartialCredit ==
    (/\ cq.question_type = "matching"
     /\ cq.allow_partial_credit
     /\ outcome # <<>>
     /\ submitted.kind = "dict"
     /\ submitted.v # cq.correct_answer.v) =>
        LET pairs == cq.correct_answer.v
            k == Cardinality({key \in DOMAIN pairs :
                                 /\ key \in DOMAIN submitted.v
                                 /\ submitted.v[key] = pairs[key]})
            r == outcome[1]
        IN ~r.isbool /\ FracEq(r.f, Frac(k, Cardinality(DOMAIN pairs)))

\* C10: every QuestionResult of a QuizResult returned by execute or
\* execute_async has a score between 0.0 and 1.0 inclusive.
C10_ScoreInUnitInterval ==
    \A p \in Runs :
        Done(p) =>
            \A k \in DOMAIN Returned(p).question_results :
                LET sc == Returned(p).question_results[k].score
                IN FracLeq(Zero, sc) /\ FracLeq(sc, One)

\* s[a..b] is s with the blanks at both ends removed, said without Strip: only
\* blanks lie outside a..b, and the part kept neither begins nor ends with a blank
IsTrimOf(s, a, b) ==
    /\ a <= b + 1
    /\ \A k \in 1..(a - 1) : s[k] \in Whitespace
    /\ \A k \in (b + 1)..Len(s) : s[k] \in Whitespace
    /\ a <= b => (s[a] \notin Whitespace /\ s[b] \notin Whitespace)

ShortTextChecked ==
    /\ outcome # <<>>
    /\ cq.question_type = "short_text"
    /\ submitted.kind = "text"

\* C19: in case-insensitive mode the canonical answer is accepted both upper-cased
\* and lower-cased, whatever the canonical answer and the variations are
C19_CanonicalAcceptedInAnyCase ==
    (/\ ShortTextChecked
     /\ ~cq.case_sensitive
     /\ submitted.v \in {Upper(cq.correct_answer.v), Lower(cq.correct_answer.v)})
        => outcome[1] = RetBool(TRUE)

\* C20: for a string submission check_answer is True exactly when the submission
\* without its leading and trailing blanks equals the canonical answer or a
\* variation, all lower-cased in case-insensitive mode; only the submission is trimmed
C20_ShortTextCheck ==
    ShortTextChecked =>
        LET accepted == {cq.correct_answer.v} \cup Range(cq.accepted_variations)
            fold(s) == IF cq.case_sensitive THEN s ELSE Lower(s)
        IN /\ outcome[1].isbool
           /\ ~Raises(outcome[1])
           /\ outcome[1].b <=>
                 \E a \in 1..(Len(submitted.v) + 1) : \E b \in 0..Len(submitted.v) :
                     /\ IsTrimOf(submitted.v, a, b)
                     /\ fold(SubSeq(submitted.v, a, b)) \in {fold(c) : c \in accepted}

\* a submission with a leading blank is accepted for the second variation, after the
\* canonical answer and a variation with a trailing blank did not match
C20_Witness ==
    /\ ShortTextChecked
    /\ cq.case_sensitive
    /\ cq.correct_answer.v = <<"a", " ", "a">>
    /\ cq.accepted_variations = <<<<"a", " ">>, <<"A">>>>
    /\ submitted.v = <<" ", "A">>
    /\ outcome[1] = RetBool(TRUE)

\* C11: in every returned QuizResult a question result is PARTIAL only with a
\* score strictly between 0 and 1, CORRECT only with score 1.0, and has score 0
\* when it is INCORRECT, SKIPPED or TIMEOUT.
C11_StatusMatchesScore ==
    \A p \in Runs :
        Done(p) =>
            \A k \in DOMAIN Returned(p).question_results :
                LET r == Returned(p).question_results[k]
                IN /\ r.status = "partial" =>
                         (FracLt(Zero, r.score) /\ FracLt(r.score, One))
                   /\ r.status = "correct" => FracEq(r.score, One)
                   /\ r.status \in {"incorrect", "skipped", "timeout"} =>
                         FracEq(r.score, Zero)

\* the positions in the event log of run p of the events ev for ordinal i
EventsAt(p, ev, i) ==
    {k \in DOMAIN run[p].events : run[p].events[k].ev = ev /\ run[p].events[k].i = i}

\* C12: for every question answered with a value other than None, the
\* QuestionResult's user_answer and the answer handed to the post-question
\* callback are the value the answer source returned, falsy values included.
C12_AnswerRecordedAsReturned ==
    \A p \in Runs : \A k \in DOMAIN run[p].answers :
        LET a == run[p].answers[k]
        IN a.kind \notin {"none", "timed_out"} =>
              /\ PyEq(run[p].results[k].user_answer, a)
              /\ \A e \in EventsAt(p, "result_callback", k) :
                    PyEq(run[p].events[e].answer, a)

\* C13: past the empty-list check no value returned by the answer source makes
\* the call fail; the run goes on and returns a QuizResult.
C13_NoAnswerFailsTheCall ==
    \A p \in Runs : run[p].pc # "raised"

\* C14: the post-question callback fires exactly once, after the answer
\* acquisition ended, for every question whose acquisition was started and has
\* ended, a per-question TIMEOUT included.
C14_PostCallbackOncePerQuestion ==
    \A p \in Runs : \A k \in DOMAIN run[p].answers :
        /\ Cardinality(EventsAt(p, "result_callback", k)) = 1
        /\ \A e \in EventsAt(p, "result_callback", k) :
              \E a \in EventsAt(p, "answer_provider", k - 1) : a < e

\* the 0-based position of the question an event of a run is about
Position(e) == IF e.ev = "answer_provider" THEN e.i ELSE e.i - 1

BudgetExhausted(p, t) == time_limit # NoLimit /\ t - run[p].own_start >= time_limit

TimeoutCallbacks(p) ==
    {k \in DOMAIN run[p].events : run[p].events[k].ev = "timeout_callback"}

\* the callback fires at most once, at a boundary where the budget is exhausted,
\* and nothing follows it in the run
TimeoutCallbackEndsRun(p) ==
    /\ Cardinality(TimeoutCallbacks(p)) <= 1
    /\ \A k \in TimeoutCallbacks(p) :
          /\ k = Len(run[p].events)
          /\ Done(p)
          /\ BudgetExhausted(p, run[p].end_time)
          /\ run[p].events[k].i = run[p].i
          /\ run[p].i <= RunLength(p)

\* C16 as claimed: the timeout callback fires at most once, only at a question
\* boundary where the budget is exhausted, nothing follows it, and it fires in
\* every run during which the aggregate budget becomes exhausted.
C16_TimeoutCallbackWheneverExhausted ==
    \A p \in Runs :
        /\ TimeoutCallbackEndsRun(p)
        /\ (Done(p) /\ BudgetExhausted(p, run[p].end_time)) => TimeoutCallbacks(p) # {}

\* C16: the timeout callback fires at most once, only at a question boundary
\* where the budget is exhausted, nothing follows it, and it fires in every run
\* that comes to the boundary before a question with the budget exhausted: no
\* answer is requested at such a boundary. A budget used up while the last
\* question is answered meets no boundary.
C16_TimeoutCallbackAtBoundary ==
    \A p \in Runs :
        /\ TimeoutCallbackEndsRun(p)
        /\ \A k \in DOMAIN run[p].events :
              run[p].events[k].ev = "answer_provider" =>
                  ~BudgetExhausted(p, run[p].events[k].t)
        /\ ShortCircuited(p) => TimeoutCallbacks(p) # {}

C16_Witness ==
    \E p \in Runs :
        /\ Done(p)
        /\ run[p].mode = "async"
        /\ time_limit = 1
        /\ Len(run[p].events) = 4
        /\ run[p].events[3].ev = "result_callback"
        /\ run[p].events[4].ev = "timeout_callback"
        /\ run[p].events[4].i = 2

SameElements(s, t) ==
    /\ Len(s) = Len(t)
    /\ \A x \in Range(s) \cup Range(t) :
          Cardinality({k \in DOMAIN s : s[k] = x}) = Cardinality({k \in DOMAIN t : t[k] = x})

\* C18: no step of execute or execute_async changes the stored question list;
\* the order of a run is a rearrangement held by the run alone, and
\* total_questions of the returned result is the number of stored questions.
C18_StoredQuestionsUntouched ==
    [][/\ questions' = questions
       /\ \A p \in Runs :
             run'[p].pc = "done" =>
                 /\ SameElements(run'[p].questions_to_run, questions')
                 /\ run'[p].returned[1].total_questions = Len(questions')]_vars

C18_Witness ==
    \E p \in Runs :
        /\ Done(p)
        /\ randomize_order
        /\ run[p].questions_to_run # questions
        /\ Returned(p).total_questions = 2

\* C17: every call that returns produces one QuizResult, made of that run's
\* results alone, and stores it as the last result before returning; get_result
\* gives what the most recent completed call returned, and None before the
\* first run.
C17_LastResultIsLatest ==
    \A p \in Runs :
        /\ Sequential(p) => last_result = run[p].returned
        /\ (Sequential(p) /\ run[p].calls = 0) => last_result = NoResult
        /\ Done(p) =>
              /\ Len(run[p].returned) = 1
              /\ Returned(p).question_results = run[p].results
              /\ Returned(p).total_questions = RunLength(p)
              /\ Returned(p).time_taken = run[p].end_time - run[p].own_start

C17_Witness ==
    \E p \in Runs :
        /\ Done(p)
        /\ run[p].calls = 2
        /\ run[p].own_start = 1
        /\ run[p].end_time = 2
        /\ Len(last_result[1].question_results) = 1
        /\ last_result[1].question_results[1].status = "correct"
        /\ last_result[1].question_results[1].time_taken = 1

\* C21: TrueFalseQuestion.check_answer never fails and returns, for a bool,
\* whether it equals the canonical answer; for a string, whether its trimmed
\* lower-cased form is in {true, t, yes, y, 1} for a true canonical answer and in
\* {false, f, no, n, 0} for a false one; for a number, whether (number is
\* nonzero) equals the canonical answer; for anything else False. No submission
\* is accepted both by a true-answer and by a false-answer question.
C21_TrueFalseCheck ==
    (outcome # <<>> /\ cq.question_type = "true_false") =>
        LET r == outcome[1]
            a == submitted
            canonical == cq.correct_answer.v
            Yes == {<<"t", "r", "u", "e">>, <<"t">>, <<"y", "e", "s">>, <<"y">>, <<"1">>}
            No == {<<"f", "a", "l", "s", "e">>, <<"f">>, <<"n", "o">>, <<"n">>, <<"0">>}
            expected ==
                CASE a.kind = "bool" -> a.v = canonical
                  [] a.kind = "text" ->
                        \E i \in 1..(Len(a.v) + 1) : \E j \in 0..Len(a.v) :
                            /\ IsTrimOf(a.v, i, j)
                            /\ Lower(SubSeq(a.v, i, j)) \in (IF canonical THEN Yes ELSE No)
                  [] a.kind = "int" -> (a.v # 0) = canonical
                  [] a.kind = "float" -> (a.v.num # 0) = canonical
                  [] OTHER -> FALSE
        IN /\ ~Raises(r)
           /\ r.isbool
           /\ r.b = expected
           /\ r.b => ~check_answer(TrueFalseQuestion(~canonical, NoLimit), a).b

C21_Witness ==
    /\ outcome = <<RetBool(TRUE)>>
    /\ cq.question_type = "true_false"
    /\ ~cq.correct_answer.v
    /\ submitted = Text(<<" ", "N", "o", " ">>)

Built == ctor # NoCall /\ ctor.result = "built"
Rejected == ctor # NoCall /\ ctor.result = "ValueError" /\ ctor.question = NoCall

\* C22: construction rejects, with no object made, a MultipleChoiceQuestion
\* whose correct answer is not an option, a MultipleSelectQuestion with a correct
\* answer that is not an option, and a TrueFalseQuestion whose canonical answer is
\* not a bool; every question that exists satisfies these conditions.
C22_ConstructionRejectsMisfits ==
    (ctor # NoCall /\ ctor.result # "pending") =>
        LET misfit ==
                CASE ctor.variant = "multiple_choice" ->
                         ~\E k \in DOMAIN ctor.options : ctor.options[k] = ctor.correct.v
                  [] ctor.variant = "multiple_select" ->
                         \E k \in DOMAIN ctor.correct.v :
                             ~\E o \in DOMAIN ctor.options :
                                 ctor.options[o] = ctor.correct.v[k]
                  [] ctor.variant = "true_false" -> ctor.correct.kind # "bool"
                  [] OTHER -> FALSE
        IN /\ misfit => Rejected
           /\ Built =>
                 /\ ~misfit
                 /\ ctor.question[1].question_type = ctor.variant
                 /\ ctor.variant # "matching" =>
                        /\ ctor.question[1].correct_answer = ctor.correct
                        /\ ctor.question[1].options = ctor.options

C22_Witness ==
    /\ Rejected
    /\ ctor.variant = "multiple_select"
    /\ ctor.options = <<"a", "b">>
    /\ ctor.correct = List(<<"a", "b", "c">>)

\* C23: a MultipleChoiceQuestion or MultipleSelectQuestion with fewer than 2
\* options, a MultipleSelectQuestion with fewer than 2 distinct correct answers,
\* and a MatchingQuestion with fewer than 2 pairs are never constructed.
C23_ConstructionRejectsSmall ==
    Built =>
        /\ ctor.variant \in {"multiple_choice", "multiple_select"} =>
               Len(ctor.options) >= 2
        /\ ctor.variant = "multiple_select" => Cardinality(Range(ctor.correct.v)) >= 2
        /\ ctor.variant = "matching" => Cardinality(DOMAIN ctor.pairs) >= 2

\* C24: the display order of a question that shuffles is fixed by the first
\* access, every later access returns that order, and it is a rearrangement of
\* the configured options (answers); a question that does not shuffle returns
\* the configured order at every access.
C24_DisplayOrderComputedOnce ==
    display # NoCall =>
        /\ display.returned = <<>> => display.cache = <<>>
        /\ \A k \in DOMAIN display.returned :
              /\ display.returned[k] = display.returned[1]
              /\ SameElements(display.returned[k], display.items)
              /\ display.shuffle => display.cache = <<display.returned[k]>>
              /\ ~display.shuffle => display.returned[k] = display.items

C24_Witness ==
    /\ display # NoCall
    /\ display.shuffle
    /\ display.attribute = "display_answers"
    /\ Len(display.returned) = MaxAccess
    /\ display.returned[MaxAccess] # display.items

\* C25: generate_question and generate_question_async end by returning a
\* Question or None, whatever the reply of the model is; they never raise.
C25_GeneratorNeverRaises ==
    gen # NoCall => gen.result # "raised"

\* C26: while a TimerDisplay is paused its elapsed time stays at the value of
\* the first pause, whatever the clock does and however often pause is called;
\* pause and resume leave the elapsed time as it is and a running timer gains
\* exactly the time that passes, so paused time never counts; resume on a timer
\* that is not paused changes nothing; the remaining time is never negative.
C26_PausedTimeNeverCounts ==
    [][timer # NoCall =>
         LET before == get_elapsed(timer)
             after == get_elapsed(timer')
         IN /\ (timer.is_paused /\ timer'.is_paused) => after = before
            /\ timer'.last \in {"pause", "resume"} => after = before
            /\ timer'.last = "pause" => timer'.is_paused
            /\ timer'.last = "resume" => ~timer'.is_paused
            /\ (timer'.last = "resume" /\ ~timer.is_paused) =>
                   timer' = [timer EXCEPT !.last = "resume"]
            /\ (timer'.clock # timer.clock /\ ~timer.is_paused) =>
                   after - before = timer'.clock - timer.clock
            /\ get_remaining(timer) >= 0 /\ get_remaining(timer') >= 0
            /\ get_remaining(timer') <= get_remaining(timer)
            /\ is_expired(timer') <=> after >= timer.duration]_vars

C26_Witness ==
    /\ timer # NoCall
    /\ timer.last = "tick"
    /\ ~timer.is_paused
    /\ get_elapsed(timer) > 1
    /\ timer.clock - timer.created > get_elapsed(timer) + 1
    /\ is_expired(timer)

\* C27: in every returned QuizResult the k-th question result (0-based) has
\* question_index k and carries the correct answer of the question at that
\* index of the run order, the synthesized TIMEOUT results included.
C27_ResultsNameTheirOwnQuestion ==
    \A p \in Runs :
        Done(p) =>
            \A k \in DOMAIN Returned(p).question_results :
                LET r == Returned(p).question_results[k]
                IN /\ r.question_index = k - 1
                   /\ PyEq(r.correct_answer, RunQuestion(p, k).correct_answer)

\* C28: in every returned QuizResult correct_answers is the number of CORRECT
\* question results, partial_answers the number of PARTIAL ones, and
\* correct_answers + partial_answers + skipped_count + timeout_count is at most
\* total_questions.
C28_CountsMatchStatuses ==
    \A p \in Runs :
        Done(p) =>
            LET r == Returned(p)
            IN /\ r.correct_answers = CountStatus(r.question_results, "correct")
               /\ r.partial_answers = CountStatus(r.question_results, "partial")
               /\ r.correct_answers + r.partial_answers
                     + skipped_count(r) + timeout_count(r) <= r.total_questions

C28_Witness ==
    \E p \in Runs :
        /\ Done(p)
        /\ Returned(p).correct_answers = 1
        /\ Returned(p).partial_answers = 1
        /\ Returned(p).total_questions = 2
        /\ Len(Returned(p).question_results) = 2

\* C29: a call of execute or execute_async that fails on the empty question
\* list changes nothing of the quiz: the last result stays what it was, the list
\* stays empty and the start time is not reset; the last result goes back to
\* None only by clear().
C29_FailedCallLeavesQuiz ==
    [][/\ \A p \in Runs :
            (run[p].pc = "idle" /\ run'[p].pc = "error") =>
                /\ questions = <<>> /\ questions' = <<>>
                /\ last_result' = last_result
                /\ start_time' = start_time
       /\ \A p \in Runs :
            (run[p].pc = "idle" /\ run'[p].pc # "idle") =>
                (questions = <<>> <=> run'[p].pc = "error")
       /\ (last_result # NoResult /\ last_result' = NoResult) =>
                (edit' # edit /\ edit'.op = "clear")]_vars

C29_Witness ==
    \E p \in Runs :
        /\ run[p].pc = "error"
        /\ edit # NoCall
        /\ edit.op = "remove_question"
        /\ edit.before # <<>>
        /\ questions = <<>>
        /\ last_result # NoResult
        /\ start_time # NoTime
        /\ start_time < now

\* the number of leading Questions of an argument list
RECURSIVE LeadingQuestions(_)
LeadingQuestions(xs) ==
    IF xs = <<>> \/ xs[1].kind # "question" THEN 0 ELSE 1 + LeadingQuestions(Tail(xs))

\* C30: add_question appends a Question at the end of the list, and raises
\* TypeError on anything else with the list as it was; add_questions appends
\* the elements before the first that is not a Question, in order, then raises,
\* and appends nothing after it.
C30_AddQuestionsStopsAtFirstMisfit ==
    (edit # NoCall /\ edit.op \in {"add_question", "add_questions"}) =>
        LET k == LeadingQuestions(edit.arg)
        IN /\ edit.raised <=> k < Len(edit.arg)
           /\ Len(questions) = Len(edit.before) + k
           /\ \A j \in 1..Len(edit.before) : questions[j] = edit.before[j]
           /\ \A j \in 1..k : questions[Len(edit.before) + j] = edit.arg[j].v

C30_Witness ==
    /\ edit # NoCall
    /\ edit.op = "add_questions"
    /\ edit.raised
    /\ Len(edit.arg) = 3
    /\ edit.arg[2] = None
    /\ edit.arg[3].kind = "question"
    /\ edit.before # <<>>
    /\ Len(questions) = Len(edit.before) + 1

====
